---- MODULE Spec2Model ----
(***************************************************************************)
(* Model of src/controllers/appointmentController.js: the synchronous      *)
(* appointment handlers, the bulk-update job (bulkUpdateAppointments), the *)
(* single-resource asynchronous update (updateAppointmentAsync and         *)
(* processAppointmentUpdate) and the pagination of getAppointments.        *)
(*                                                                         *)
(* The node event loop is single-threaded: a handler or a background task  *)
(* runs without interruption between two awaits.  Every action below is    *)
(* one such uninterrupted stretch; the effect of an awaited store or       *)
(* tracker call takes place in the stretch that the call resolves in.      *)
(***************************************************************************)
EXTENDS Integers, Sequences, FiniteSets, TLC

\* ------------------------------------------------------------- bounds
MaxTasks == 2      \* requests that start background work
MaxReq   == 3      \* requests received in all
MaxClock == 1      \* last millisecond Date.now() reaches
MaxItems == 2      \* longest bulk list submitted
MaxCount == 25     \* most rows findAndCountAll counts
MaxPage  == 4      \* largest page asked for

\* --------------------------------------------------------------- data
AppIds == {1, 2}
Val    == {1, 2}
Unset  == 0

\* A stored appointment row; NoRow stands for "no such row" (findByPk -> null).
Row   == [a : Val, b : Val]
NoRow == [a |-> Unset, b |-> Unset]

\* A request body: the fields it names carry a value, the others are Unset.
NoData   == [a |-> Unset, b |-> Unset]
Payloads == {[a |-> 2, b |-> Unset], [a |-> 1, b |-> 2]}

\* Model.update / instance.update write the fields the payload names.
Apply(row, data) ==
    [f \in {"a", "b"} |-> IF data[f] = Unset THEN row[f] ELSE data[f]]

\* Errors the ORM raises (err.name), the ones a background update is let
\* raise here, and the tracker's storage error.
OrmErrors  == {"SequelizeValidationError", "SequelizeUniqueConstraintError", "SequelizeDatabaseError"}
TaskErrors == {"SequelizeValidationError"}
CacheError == "CacheError"
TypeError  == "TypeError"
NoError    == "none"

\* ------------------------------------------------------- tracker keys
JobKey(t) == <<"job", t>>
OpKey(n)  == <<"op", n>>
NoKey     == <<"none", 0>>
Keys      == {JobKey(t) : t \in 0..MaxClock} \cup {OpKey(n) : n \in 1..MaxTasks}

NoRecord ==
    [status |-> "unset", writer |-> 0, resourceId |-> 0,
     data |-> NoData, result |-> NoRow, error |-> NoError]

VARIABLES
    store,     \* the appointments table: AppIds -> Row or NoRow
    tracker,   \* the cache: Keys -> operation record or NoRecord
    tasks,     \* background work started so far, in order of arrival
    now,       \* Date.now()
    uuids,     \* operation ids handed out by crypto.randomUUID so far
    nreq,      \* requests received so far
    resp,      \* the HTTP response sent last
    page       \* the last getAppointments call: its query and its result

vars == <<store, tracker, tasks, now, uuids, nreq, resp, page>>

NoResp ==
    [seq |-> 0, handler |-> "none", id |-> 0, status |-> 0, found |-> FALSE,
     err |-> NoError, operationId |-> NoKey, location |-> FALSE]

\* ---------------------------------------------------- JavaScript values
\* A value of req.query or of the handler: a number or a string, either one
\* held by its decimal digits (only naturals occur).
RECURSIVE Digits(_)
Digits(n) == IF n < 10 THEN <<n>> ELSE Append(Digits(n \div 10), n % 10)

RECURSIVE Parse(_)
Parse(s) == IF Len(s) = 0 THEN 0
            ELSE 10 * Parse(SubSeq(s, 1, Len(s) - 1)) + s[Len(s)]

Num(n) == [t |-> "number", s |-> Digits(n)]
Str(n) == [t |-> "string", s |-> Digits(n)]
Undefined == [t |-> "undefined", s |-> <<>>]

ToNumber(x) == Parse(x.s)
\* `${x}`
JsToString(x) == x.s
\* x + y: concatenation as soon as one operand is a string.
JsAdd(x, y) ==
    IF x.t = "string" \/ y.t = "string"
      THEN [t |-> "string", s |-> JsToString(x) \o JsToString(y)]
      ELSE Num(ToNumber(x) + ToNumber(y))
\* x - y: always numeric.
JsSub(x, y) == Num(ToNumber(x) - ToNumber(y))
\* x > y, x < y with a number on one side: numeric.
JsGt(x, y) == ToNumber(x) > ToNumber(y)
JsLt(x, y) == ToNumber(x) < ToNumber(y)
\* Math.ceil(count / limit), limit >= 1
MathCeilDiv(count, limit) == (count + ToNumber(limit) - 1) \div ToNumber(limit)

NoLink == [page |-> <<>>, limit |-> <<>>]
Link(p, l) == [page |-> JsToString(p), limit |-> JsToString(l)]

NoPage ==
    [called |-> FALSE, page |-> Undefined, limit |-> Undefined, count |-> 0,
     totalPages |-> 0, self |-> NoLink, first |-> NoLink, last |-> NoLink,
     prev |-> NoLink, next |-> NoLink]

\* ------------------------------------------------------------- tasks
\* One record per request that starts background work.  pc names the await
\* the work is suspended at:
\*   bulk:   queued -> update (item i) -> setCompleted | setFailed -> done | rejected
\*   single: setProcessing -> update -> setCompleted | setFailed -> done | rejected
\*           setProcessing -> refused   (the handler's catch answered 400)
\* overlaps, trail, applied and after are history kept for the properties:
\*   trail    what the request and its background work did so far, in order:
\*            "processing" (first tracker write), "202" / "400" (response sent),
\*            "update" (an update call resolved), "terminal" (terminal write)
\*   applied  bulk: the indices of the items whose update resolved, in order
\*   after    single: the tasks on the same appointment that had applied
\*            their update before this one applied its own
Items     == {[id |-> 1, data |-> [a |-> 2, b |-> Unset]],
               [id |-> 2, data |-> [a |-> 1, b |-> 2]]}
BulkLists == UNION {[1..n -> Items] : n \in 0..MaxItems}

Finished == {"done", "rejected", "refused"}
Running  == {"update", "setCompleted", "setFailed"}

TaskIds == 1..Len(tasks)

NewTask(kind, key, pc) ==
    [kind |-> kind, key |-> key, pc |-> pc,
     iterable |-> TRUE, items |-> <<>>, i |-> 1,
     id |-> 0, inst |-> NoRow, data |-> NoData,
     err |-> NoError, overlaps |-> FALSE,
     trail |-> <<>>, applied |-> <<>>, after |-> {}]

\* ----------------------------------------------------------- tracker
\* cache.set(key, record): stores or overwrites the record of the key.
CacheSet(key, rec) == [tracker EXCEPT ![key] = rec]

Terminal == {"completed", "failed"}

\* ---------------------------------------------------------- responses
Respond(handler, id, status, found, err) ==
    [seq |-> 1 - resp.seq, handler |-> handler, id |-> id, status |-> status,
     found |-> found, err |-> err, operationId |-> NoKey, location |-> FALSE]

\* findByPk(id): the row, or null.
findByPk(id) == store[id]

\* ------------------------------------------------- synchronous handlers
\* The 404 body of getAppointmentById reads baseUrl (line 124), which is a
\* const of the if-block (line 83): the else-block has no such binding, the
\* read throws a ReferenceError after res.status(404) and before json(), and
\* the handler's catch answers 500.
ElseBlockScope == {"req", "res", "appointment"}
NotFoundBodyReads == {"req", "res", "baseUrl"}
getByIdNotFoundStatus ==
    IF NotFoundBodyReads \subseteq ElseBlockScope THEN 404 ELSE 500

getAppointmentById(id) ==
    /\ nreq < MaxReq
    /\ nreq' = nreq + 1
    /\ resp' = IF findByPk(id) # NoRow
                 THEN Respond("getAppointmentById", id, 200, TRUE, NoError)
                 ELSE Respond("getAppointmentById", id, getByIdNotFoundStatus,
                              FALSE, NoError)
    /\ UNCHANGED <<store, tracker, tasks, now, uuids, page>>

\* The handlers' own catch blocks: every error is answered alike.
createCatchStatus(e) == 400
updateCatchStatus(e) == 400

\* errorHandler maps an error to a status by err.name.  It is defined in the
\* controller but neither exported nor called by any handler.
errorHandler(e) ==
    IF e = "SequelizeValidationError" THEN 400
    ELSE IF e = "SequelizeUniqueConstraintError" THEN 409
    ELSE 500

FreeIds == {id \in AppIds : store[id] = NoRow}
NewRow(body) == Apply([a |-> 1, b |-> 1], body)

createAppointment(body) ==
    /\ nreq < MaxReq
    /\ FreeIds # {}
    /\ nreq' = nreq + 1
    /\ LET id == CHOOSE x \in FreeIds : \A y \in FreeIds : x <= y IN
       \/ /\ store' = [store EXCEPT ![id] = NewRow(body)]
          /\ resp' = [Respond("createAppointment", id, 201, TRUE, NoError)
                        EXCEPT !.location = TRUE]
       \/ \E e \in OrmErrors :
            /\ store' = store
            /\ resp' = Respond("createAppointment", 0, createCatchStatus(e),
                               FALSE, e)
    /\ UNCHANGED <<tracker, tasks, now, uuids, page>>

updateAppointment(id, body) ==
    /\ nreq < MaxReq
    /\ nreq' = nreq + 1
    /\ IF findByPk(id) # NoRow
         THEN \/ /\ store' = [store EXCEPT ![id] = Apply(store[id], body)]
                 /\ resp' = Respond("updateAppointment", id, 200, TRUE, NoError)
              \/ \E e \in OrmErrors :
                   /\ store' = store
                   /\ resp' = Respond("updateAppointment", id,
                                      updateCatchStatus(e), TRUE, e)
         ELSE /\ store' = store
              /\ resp' = Respond("updateAppointment", id, 404, FALSE, NoError)
    /\ UNCHANGED <<tracker, tasks, now, uuids, page>>

deleteAppointment(id) ==
    /\ nreq < MaxReq
    /\ nreq' = nreq + 1
    /\ IF findByPk(id) # NoRow
         THEN \/ /\ store' = [store EXCEPT ![id] = NoRow]
                 /\ resp' = Respond("deleteAppointment", id, 200, TRUE, NoError)
              \/ \E e \in OrmErrors :
                   /\ store' = store
                   /\ resp' = Respond("deleteAppointment", id, 500, TRUE, e)
         ELSE /\ store' = store
              /\ resp' = Respond("deleteAppointment", id, 404, FALSE, NoError)
    /\ UNCHANGED <<tracker, tasks, now, uuids, page>>

\* ----------------------------------------------------------- bulk job
\* Date.now().toString(): the job id is the current millisecond.
jobIdOf(t) == JobKey(t)

\* req.body.appointments is a list, or is missing (iterable = FALSE).
bulkUpdateAppointments(iterable, appointments) ==
    /\ nreq < MaxReq
    /\ Len(tasks) < MaxTasks
    /\ nreq' = nreq + 1
    /\ LET jobId == jobIdOf(now) IN
       /\ resp' = [Respond("bulkUpdateAppointments", 0, 202, TRUE, NoError)
                     EXCEPT !.operationId = jobId]
       /\ tasks' = Append(tasks, [NewTask("bulk", jobId, "queued") EXCEPT
                                    !.iterable = iterable, !.items = appointments,
                                    !.trail = <<"202">>])
    /\ UNCHANGED <<store, tracker, now, uuids, page>>

\* The process.nextTick callback starts: for..of takes the iterator of the
\* list (a TypeError when there is none) and issues the first update, or the
\* loop is over at once.
\* A loop that stops one item short.
AfterItem_OffByOne(t, i) ==
    IF i >= Len(tasks[t].items) THEN "setCompleted" ELSE "update"

AfterItem(t, i) ==
    IF i > Len(tasks[t].items) THEN "setCompleted" ELSE "update"

bulkCallbackStart(t) ==
    /\ tasks[t].kind = "bulk"
    /\ tasks[t].pc = "queued"
    /\ tasks' = IF tasks[t].iterable
                  THEN [tasks EXCEPT ![t].pc = AfterItem(t, 1)]
                  ELSE [tasks EXCEPT ![t].pc = "setFailed", ![t].err = TypeError]
    /\ UNCHANGED <<store, tracker, now, uuids, nreq, resp, page>>

\* await Appointment.update(appt, {where: {id: appt.id}}) for item i: the row
\* with that id, when there is one, takes the item's fields; or the call throws.
ModelUpdate(item) ==
    IF store[item.id] = NoRow THEN store
    ELSE [store EXCEPT ![item.id] = Apply(store[item.id], item.data)]

\* A loop that catches a failed item and goes on with the next one.
bulkUpdateItem_KeepsGoing(t) ==
    /\ tasks[t].kind = "bulk"
    /\ tasks[t].pc = "update"
    /\ LET i == tasks[t].i IN
       \/ /\ store' = ModelUpdate(tasks[t].items[i])
          /\ tasks' = [tasks EXCEPT ![t].i = i + 1, ![t].pc = AfterItem(t, i + 1),
                                    ![t].trail = Append(@, "update"),
                                    ![t].applied = Append(@, i)]
       \/ \E e \in TaskErrors :
            /\ store' = store
            /\ tasks' = [tasks EXCEPT ![t].i = i + 1, ![t].pc = AfterItem(t, i + 1),
                                      ![t].err = e]
    /\ UNCHANGED <<tracker, now, uuids, nreq, resp, page>>

bulkUpdateItem(t) ==
    /\ tasks[t].kind = "bulk"
    /\ tasks[t].pc = "update"
    /\ LET i == tasks[t].i IN
       \/ /\ store' = ModelUpdate(tasks[t].items[i])
          /\ tasks' = [tasks EXCEPT ![t].i = i + 1, ![t].pc = AfterItem(t, i + 1),
                                    ![t].trail = Append(@, "update"),
                                    ![t].applied = Append(@, i)]
       \/ \E e \in TaskErrors :
            /\ store' = store
            /\ tasks' = [tasks EXCEPT ![t].pc = "setFailed", ![t].err = e]
    /\ UNCHANGED <<tracker, now, uuids, nreq, resp, page>>

BulkCompleted(t) == [NoRecord EXCEPT !.status = "completed", !.writer = t]
BulkFailed(t) ==
    [NoRecord EXCEPT !.status = "failed", !.writer = t, !.error = tasks[t].err]

\* await cache.set(jobId, {status: 'completed'}) inside the try block.
bulkSetCompleted(t) ==
    /\ tasks[t].kind = "bulk"
    /\ tasks[t].pc = "setCompleted"
    /\ \/ /\ tracker' = CacheSet(tasks[t].key, BulkCompleted(t))
          /\ tasks' = [tasks EXCEPT ![t].pc = "done", ![t].trail = Append(@, "terminal")]
       \/ /\ tracker' = tracker
          /\ tasks' = [tasks EXCEPT ![t].pc = "setFailed", ![t].err = CacheError]
    /\ UNCHANGED <<store, now, uuids, nreq, resp, page>>

\* await cache.set(jobId, {status: 'failed', error}) inside the catch block:
\* when it throws, nothing catches it (an unhandled rejection).
bulkSetFailed(t) ==
    /\ tasks[t].kind = "bulk"
    /\ tasks[t].pc = "setFailed"
    /\ \/ /\ tracker' = CacheSet(tasks[t].key, BulkFailed(t))
          /\ tasks' = [tasks EXCEPT ![t].pc = "done", ![t].trail = Append(@, "terminal")]
       \/ /\ tracker' = tracker
          /\ tasks' = [tasks EXCEPT ![t].pc = "rejected"]
    /\ UNCHANGED <<store, now, uuids, nreq, resp, page>>

\* --------------------------------------------- single-resource async update
\* A generator that hands the same id to every caller.
randomUUID_Repeating == OpKey(1)

\* crypto.randomUUID(): an id no earlier call returned.
randomUUID == OpKey(uuids + 1)

\* Another accepted update of the same appointment is still under way.
Overlapping(t) ==
    \E u \in TaskIds \ {t} :
        /\ tasks[u].kind = "single"
        /\ tasks[u].id = tasks[t].id
        /\ tasks[u].pc \in Running

\* The handler without its `if (!appointment)` early return.
asyncLookup_NoNullCheck(id, body) ==
    /\ nreq < MaxReq
    /\ nreq' = nreq + 1
    /\ Len(tasks) < MaxTasks
    /\ uuids' = uuids + 1
    /\ tasks' = Append(tasks, [NewTask("single", randomUUID, "setProcessing") EXCEPT
                                 !.id = id, !.inst = findByPk(id), !.data = body])
    /\ resp' = resp
    /\ UNCHANGED <<store, tracker, now, page>>

\* updateAppointmentAsync up to its first resolved await: findByPk answers;
\* null is answered 404 at once, otherwise the operation id is drawn and the
\* 'processing' record is handed to cache.set.
asyncLookup(id, body) ==
    /\ nreq < MaxReq
    /\ nreq' = nreq + 1
    /\ IF findByPk(id) = NoRow
         THEN /\ resp' = Respond("updateAppointmentAsync", id, 404, FALSE, NoError)
              /\ UNCHANGED <<tasks, uuids>>
         ELSE /\ Len(tasks) < MaxTasks
              /\ uuids' = uuids + 1
              /\ tasks' = Append(tasks, [NewTask("single", randomUUID, "setProcessing") EXCEPT
                                           !.id = id, !.inst = findByPk(id), !.data = body])
              /\ resp' = resp
    /\ UNCHANGED <<store, tracker, now, page>>

Processing(t) ==
    [NoRecord EXCEPT !.status = "processing", !.writer = t,
                     !.resourceId = tasks[t].id, !.data = tasks[t].data]

\* The handler awaiting processAppointmentUpdate before it answers: the work
\* goes ahead with no response sent.
asyncAccept_AwaitsWork(t) ==
    /\ tasks[t].kind = "single"
    /\ tasks[t].pc = "setProcessing"
    /\ tracker' = CacheSet(tasks[t].key, Processing(t))
    /\ tasks' = [tasks EXCEPT ![t].pc = "update", ![t].overlaps = Overlapping(t),
                              ![t].trail = Append(@, "processing")]
    /\ resp' = resp
    /\ UNCHANGED <<store, now, uuids, nreq, page>>

\* await cache.set(operationId, {status: 'processing', ...}) resolves: the
\* record is stored, processAppointmentUpdate runs up to its timer, and the 202
\* goes out; or it throws and the handler's catch answers 400.
asyncAccept(t) ==
    /\ tasks[t].kind = "single"
    /\ tasks[t].pc = "setProcessing"
    /\ \/ /\ tracker' = CacheSet(tasks[t].key, Processing(t))
          /\ tasks' = [tasks EXCEPT ![t].pc = "update", ![t].overlaps = Overlapping(t),
                                    ![t].trail = @ \o <<"processing", "202">>]
          /\ resp' = [Respond("updateAppointmentAsync", tasks[t].id, 202,
                              TRUE, NoError)
                        EXCEPT !.operationId = tasks[t].key, !.location = TRUE]
       \/ /\ tracker' = tracker
          /\ tasks' = [tasks EXCEPT ![t].pc = "refused", ![t].err = CacheError,
                                    ![t].trail = Append(@, "400")]
          /\ resp' = Respond("updateAppointmentAsync", tasks[t].id, 400,
                             TRUE, CacheError)
    /\ UNCHANGED <<store, now, uuids, nreq, page>>

\* First-writer-wins: a row an earlier operation has updated is left as it is.
InstanceUpdate_FirstWriterWins(id, data) ==
    IF \/ store[id] = NoRow
       \/ \E t \in 1..Len(tasks) :
            /\ tasks[t].kind = "single" /\ tasks[t].id = id
            /\ \E n \in 1..Len(tasks[t].trail) : tasks[t].trail[n] = "update"
    THEN store
    ELSE [store EXCEPT ![id] = Apply(store[id], data)]

\* instance.update(data): the instance takes the fields, and the row with the
\* instance's id, when it is still there, takes the fields the payload names.
InstanceUpdate(id, data) ==
    IF store[id] = NoRow THEN store
    ELSE [store EXCEPT ![id] = Apply(store[id], data)]

\* The other operations on the same appointment whose update has resolved.
AppliedBefore(t) ==
    {u \in TaskIds \ {t} :
        /\ tasks[u].kind = "single"
        /\ tasks[u].id = tasks[t].id
        /\ \E n \in 1..Len(tasks[u].trail) : tasks[u].trail[n] = "update"}

\* processAppointmentUpdate: the timer has fired and appointment.update
\* resolves or throws.
processAppointmentUpdate(t) ==
    /\ tasks[t].kind = "single"
    /\ tasks[t].pc = "update"
    /\ \/ /\ store' = InstanceUpdate(tasks[t].id, tasks[t].data)
          /\ tasks' = [tasks EXCEPT ![t].pc = "setCompleted",
                                    ![t].inst = Apply(tasks[t].inst, tasks[t].data),
                                    ![t].trail = Append(@, "update"),
                                    ![t].after = AppliedBefore(t)]
       \/ \E e \in TaskErrors :
            /\ store' = store
            /\ tasks' = [tasks EXCEPT ![t].pc = "setFailed", ![t].err = e,
                                      ![t].inst = Apply(tasks[t].inst, tasks[t].data)]
    /\ UNCHANGED <<tracker, now, uuids, nreq, resp, page>>

OpCompleted(t) ==
    [NoRecord EXCEPT !.status = "completed", !.writer = t,
                     !.resourceId = tasks[t].id, !.result = tasks[t].inst]
\* A failed record that still carries the instance as its result.
OpFailed_KeepsResult(t) ==
    [NoRecord EXCEPT !.status = "failed", !.writer = t,
                     !.resourceId = tasks[t].id, !.error = tasks[t].err,
                     !.result = tasks[t].inst]
OpFailed(t) ==
    [NoRecord EXCEPT !.status = "failed", !.writer = t,
                     !.resourceId = tasks[t].id, !.error = tasks[t].err]

\* await cache.set(operationId, {status: 'completed', ..., result: appointment}).
opSetCompleted(t) ==
    /\ tasks[t].kind = "single"
    /\ tasks[t].pc = "setCompleted"
    /\ \/ /\ tracker' = CacheSet(tasks[t].key, OpCompleted(t))
          /\ tasks' = [tasks EXCEPT ![t].pc = "done", ![t].trail = Append(@, "terminal")]
       \/ /\ tracker' = tracker
          /\ tasks' = [tasks EXCEPT ![t].pc = "setFailed", ![t].err = CacheError]
    /\ UNCHANGED <<store, now, uuids, nreq, resp, page>>

\* A catch block that also answers the request with the error.
opSetFailed_Responds(t) ==
    /\ tasks[t].kind = "single"
    /\ tasks[t].pc = "setFailed"
    /\ \/ /\ tracker' = CacheSet(tasks[t].key, OpFailed(t))
          /\ tasks' = [tasks EXCEPT ![t].pc = "done", ![t].trail = Append(@, "terminal")]
       \/ /\ tracker' = tracker
          /\ tasks' = [tasks EXCEPT ![t].pc = "rejected"]
    /\ resp' = Respond("updateAppointmentAsync", tasks[t].id, 500, TRUE, tasks[t].err)
    /\ UNCHANGED <<store, now, uuids, nreq, page>>

\* await cache.set(operationId, {status: 'failed', ..., error}) in the catch
\* block: when it throws, the caller's .catch(console.error) logs it.
opSetFailed(t) ==
    /\ tasks[t].kind = "single"
    /\ tasks[t].pc = "setFailed"
    /\ \/ /\ tracker' = CacheSet(tasks[t].key, OpFailed(t))
          /\ tasks' = [tasks EXCEPT ![t].pc = "done", ![t].trail = Append(@, "terminal")]
       \/ /\ tracker' = tracker
          /\ tasks' = [tasks EXCEPT ![t].pc = "rejected"]
    /\ UNCHANGED <<store, now, uuids, nreq, resp, page>>

\* ------------------------------------------------------- getAppointments
\* const { page = 1, limit = 10 } = req.query
Default(x, d) == IF x = Undefined THEN d ELSE x

\* page + 1 of the next link (line 54)
NextPage(pg) == JsAdd(pg, Num(1))
\* page - 1 of the prev link (line 51)
PrevPage(pg) == JsSub(pg, Num(1))

getAppointments(qpage, qlimit, count) ==
    LET pg == Default(qpage, Num(1))
        limit == Default(qlimit, Num(10))
        totalPages == MathCeilDiv(count, limit)
    IN  /\ page' =
              [called |-> TRUE, page |-> pg, limit |-> limit, count |-> count,
               totalPages |-> totalPages,
               self |-> Link(pg, limit),
               first |-> IF totalPages > 0 THEN Link(Num(1), limit) ELSE NoLink,
               last |-> IF totalPages > 0 THEN Link(Num(totalPages), limit) ELSE NoLink,
               prev |-> IF totalPages > 0 /\ JsGt(pg, Num(1))
                          THEN Link(PrevPage(pg), limit) ELSE NoLink,
               next |-> IF totalPages > 0 /\ JsLt(pg, Num(totalPages))
                          THEN Link(NextPage(pg), limit) ELSE NoLink]
        /\ UNCHANGED <<store, tracker, tasks, now, uuids, nreq, resp>>

\* The clock moves on by a millisecond.
Tick ==
    /\ now < MaxClock
    /\ now' = now + 1
    /\ UNCHANGED <<store, tracker, tasks, uuids, nreq, resp, page>>

\* ------------------------------------------------------ specification
Init ==
    /\ store = [id \in AppIds |-> IF id = 1 THEN [a |-> 1, b |-> 1] ELSE NoRow]
    /\ tracker = [k \in Keys |-> NoRecord]
    /\ tasks = <<>>
    /\ now = 0
    /\ uuids = 0
    /\ nreq = 0
    /\ resp = NoResp
    /\ page = NoPage

GetById == \E id \in AppIds : getAppointmentById(id)
Create == \E body \in Payloads : createAppointment(body)
Update == \E id \in AppIds, body \in Payloads : updateAppointment(id, body)
Delete == \E id \in AppIds : deleteAppointment(id)
Bulk == \E it \in BOOLEAN, l \in BulkLists :
            (it \/ l = <<>>) /\ bulkUpdateAppointments(it, l)
BulkStart == \E t \in TaskIds : bulkCallbackStart(t)
BulkItem == \E t \in TaskIds : bulkUpdateItem(t)
BulkCompletedWrite == \E t \in TaskIds : bulkSetCompleted(t)
BulkFailedWrite == \E t \in TaskIds : bulkSetFailed(t)
AsyncLookup == \E id \in AppIds, body \in Payloads : asyncLookup(id, body)
AsyncAccept == \E t \in TaskIds : asyncAccept(t)
AsyncUpdate == \E t \in TaskIds : processAppointmentUpdate(t)
OpCompletedWrite == \E t \in TaskIds : opSetCompleted(t)
OpFailedWrite == \E t \in TaskIds : opSetFailed(t)

Next ==
    \/ GetById
    \/ Create
    \/ Update
    \/ Delete
    \/ Bulk
    \/ BulkStart
    \/ BulkItem
    \/ BulkCompletedWrite
    \/ BulkFailedWrite
    \/ AsyncLookup
    \/ AsyncAccept
    \/ AsyncUpdate
    \/ OpCompletedWrite
    \/ OpFailedWrite
    \/ Tick

Spec == Init /\ [][Next]_vars

\* getAppointments on its own: the query as Express parses it (strings, or a
\* missing parameter) and the row count findAndCountAll returns.
QueryPages  == {Undefined} \cup {Str(n) : n \in 1..MaxPage}
QueryLimits == {Undefined} \cup {Str(n) : n \in {1, 2, 10}}

GetAppointments ==
    \E qpage \in QueryPages, qlimit \in QueryLimits, count \in 0..MaxCount :
        getAppointments(qpage, qlimit, count)

PageNext == GetAppointments

PageSpec == Init /\ [][PageNext]_vars

\* ============================================================ properties
KeyTime(k) == k[2]
BulkTasks   == {t \in TaskIds : tasks[t].kind = "bulk"}
SingleTasks == {t \in TaskIds : tasks[t].kind = "single"}
\* The requests answered 202.
Accepted == {t \in TaskIds : tasks[t].pc \notin {"setProcessing", "refused"}}
\* An item of the job's list threw: the error is the ORM's.
ItemThrew(t) == tasks[t].kind = "bulk" /\ tasks[t].err \in OrmErrors

\* C1: every accepted bulk-update request ends with the tracker entry of its
\* jobId holding 'completed' or 'failed'.  Stated on the final result: once the
\* callbacks of every job with that id have run to their end and the clock has
\* left the id's millisecond (so that no later request can be given the id), the
\* entry holds a terminal status.
C1_JobRecordEventuallySet ==
    \A t \in BulkTasks :
        ( /\ \A u \in BulkTasks : tasks[u].key = tasks[t].key => tasks[u].pc \in Finished
          /\ now > KeyTime(tasks[t].key) )
        => tracker[tasks[t].key].status \in Terminal

\* C2: an updateAppointmentAsync request whose appointment exists is answered
\* 202 with a Location header and an operationId, the entry of that id is
\* there from the response on, and once the background task has run to its end
\* the entry holds 'completed' or 'failed'.
C2_AsyncAcceptedAndSettled ==
    /\ (resp.handler = "updateAppointmentAsync" /\ resp.found)
         => /\ resp.status = 202
            /\ resp.location
            /\ resp.operationId # NoKey
            /\ tracker[resp.operationId].status # "unset"
    /\ \A t \in SingleTasks :
         tasks[t].pc \in Finished => tracker[tasks[t].key].status \in Terminal

\* C3: a call of updateAppointmentAsync for an appointment id that does not
\* exist is answered 404 in that very step, and the step changes neither the
\* tracker nor the store, draws no operation id and starts no background task.
C3_NotFoundLeavesNoTrace ==
    [][\A id \in AppIds, body \in Payloads :
          (store[id] = NoRow /\ asyncLookup(id, body))
            => /\ resp'.seq # resp.seq
               /\ resp'.handler = "updateAppointmentAsync"
               /\ resp'.id = id
               /\ resp'.status = 404
               /\ resp'.operationId = NoKey
               /\ UNCHANGED <<tracker, store, tasks, uuids>>]_vars

\* C3 witness: the 404 was sent while background work and a tracker record existed.
C3_Witness ==
    /\ resp.handler = "updateAppointmentAsync"
    /\ resp.status = 404
    /\ store[resp.id] = NoRow
    /\ \E t \in SingleTasks : tracker[tasks[t].key].status = "processing"

\* C4: when an item of a bulk list throws, the job ends with its tracker record
\* 'failed' carrying that error's message, and nothing applied before is rolled
\* back.  Stated on the step that ends the job's callback.
C4_FailedItemRecorded ==
    [][\A t \in TaskIds :
          (ItemThrew(t) /\ tasks[t].pc = "setFailed" /\ tasks'[t].pc \in Finished)
            => /\ tracker'[tasks[t].key].status = "failed"
               /\ tracker'[tasks[t].key].error = tasks[t].err
               /\ store' = store]_vars

\* C5: single-resource operations have pairwise distinct operation ids (also
\* when they overlap on one appointment), and the record under an operation id
\* is written by that operation's own task alone and shows that task's outcome:
\* 'completed' with the task's own instance, or 'failed' with the task's own error.
C5_OwnIdOwnOutcome ==
    \A t \in SingleTasks :
        /\ \A u \in TaskIds \ {t} : tasks[u].key # tasks[t].key
        /\ LET r == tracker[tasks[t].key] IN
           /\ r.status # "unset" => (r.writer = t /\ t \in Accepted)
           /\ r.status = "processing" => tasks[t].pc \in Running \cup {"rejected"}
           /\ r.status = "completed"
                => /\ tasks[t].pc = "done"
                   /\ tasks[t].err = NoError
                   /\ r.result = tasks[t].inst
           /\ r.status = "failed"
                => /\ tasks[t].pc = "done"
                   /\ tasks[t].err # NoError
                   /\ r.error = tasks[t].err

\* C5 witness: two operations on one appointment, the second accepted while the
\* first was under way, ended differently, each under its own id.
C5_Witness ==
    \E t, u \in SingleTasks :
        /\ t # u
        /\ tasks[t].id = tasks[u].id
        /\ tasks[u].overlaps
        /\ tracker[tasks[t].key].status = "completed"
        /\ tracker[tasks[u].key].status = "failed"

\* C6: no two accepted requests hold the same tracker key while a record for
\* that key exists.
C6_UniqueKeys ==
    \A t, u \in Accepted :
        (t # u /\ tasks[t].key = tasks[u].key)
          => tracker[tasks[t].key].status = "unset"

\* C7: once a tracker key holds a terminal status it is never written again.
C7_TerminalIsFinal ==
    [][\A k \in Keys : tracker[k].status \in Terminal => tracker'[k] = tracker[k]]_vars

\* C8: getAppointmentById, updateAppointment and deleteAppointment answer a
\* request for an appointment id that does not exist with 404.
C8_MissingIs404 ==
    (resp.handler \in {"getAppointmentById", "updateAppointment", "deleteAppointment"}
       /\ ~resp.found)
      => resp.status = 404

\* C9: createAppointment and updateAppointment answer an ORM error by its kind:
\* validation 400, unique constraint 409, anything else 500.
C9_ErrorStatusByKind ==
    (resp.handler \in {"createAppointment", "updateAppointment"} /\ resp.err # NoError)
      => resp.status =
           (IF resp.err = "SequelizeValidationError" THEN 400
            ELSE IF resp.err = "SequelizeUniqueConstraintError" THEN 409
            ELSE 500)

\* C10: for page >= 1 and limit >= 1, totalPages = ceil(count / limit); with no
\* pages there is none of first, last, prev, next; otherwise prev is there
\* exactly when page > 1 and names page - 1, and next is there exactly when
\* page < totalPages and names page + 1.
C10_PaginationLinks ==
    page.called =>
        LET p == ToNumber(page.page)
            l == ToNumber(page.limit)
            tp == page.totalPages
        IN  /\ tp * l >= page.count /\ (tp = 0 \/ (tp - 1) * l < page.count)
            /\ tp = 0 => /\ page.first = NoLink /\ page.last = NoLink
                         /\ page.prev = NoLink /\ page.next = NoLink
            /\ tp > 0 => /\ (page.prev # NoLink) <=> (p > 1)
                         /\ (page.next # NoLink) <=> (p < tp)
                         /\ page.prev # NoLink => page.prev.page = Digits(p - 1)
                         /\ page.next # NoLink => page.next.page = Digits(p + 1)

Has(tr, e) == \E n \in 1..Len(tr) : tr[n] = e
\* The place of an event in the order of the single-resource pattern.
Rank(e) ==
    CASE e = "processing" -> 1
      [] e = "202" -> 2
      [] e = "400" -> 2
      [] e = "update" -> 3
      [] e = "terminal" -> 4
\* No event of the trail comes before one of lower rank; strictly so when
\* every event happens once (single-resource pattern).
InOrder(tr, strict) ==
    \A m, n \in 1..Len(tr) :
        m < n => IF strict THEN Rank(tr[m]) < Rank(tr[n]) ELSE Rank(tr[m]) <= Rank(tr[n])

\* C11: in both async patterns the 202 of a request is sent before its
\* background task first changes the store; in the single-resource pattern the
\* order is: 'processing' write, 202, resource update, terminal write.
C11_ResponseBeforeMutation ==
    [][\A t \in 1..Len(tasks') :
          /\ InOrder(tasks'[t].trail, tasks'[t].kind = "single")
          /\ (Has(tasks'[t].trail, "update") \/ Has(tasks'[t].trail, "terminal"))
               => Has(tasks'[t].trail, "202")
          /\ (tasks'[t].kind = "single" /\ Has(tasks'[t].trail, "202"))
               => tasks'[t].trail[1] = "processing"
          /\ t <= Len(tasks) =>
               \* a step of the task that changes the store comes after its 202
               /\ (tasks'[t] # tasks[t] /\ store' # store)
                    => Has(tasks[t].trail, "202")
               \* the 202 goes out with the 'processing' record in place
               /\ (tasks[t].kind = "single" /\ Has(tasks'[t].trail, "202")
                     /\ ~Has(tasks[t].trail, "202"))
                    => /\ tracker'[tasks[t].key].status = "processing"
                       /\ resp'.status = 202 /\ resp'.operationId = tasks[t].key
               \* the terminal write comes after the update was tried
               /\ (tasks[t].kind = "single" /\ Has(tasks'[t].trail, "terminal")
                     /\ ~Has(tasks[t].trail, "terminal"))
                    => tasks[t].pc \in {"setCompleted", "setFailed"}]_vars

\* C11 witness: an operation and a bulk job that each went through every stage.
C11_Witness ==
    /\ \E t \in SingleTasks :
         tasks[t].trail = <<"processing", "202", "update", "terminal">>
    /\ \E u \in BulkTasks :
         /\ tasks[u].trail = <<"202", "update", "terminal">>
         /\ store[tasks[u].items[1].id] # NoRow

\* C12: within one bulk job the items are applied one after the other in list
\* order: the items applied so far are at every moment the first k of the
\* list, each step applies at most the next one, and once an item has failed
\* no further item of the job is applied.
C12_AppliedInListOrder ==
    [][\A t \in 1..Len(tasks') :
          tasks'[t].kind = "bulk" =>
            LET done == tasks'[t].applied IN
            /\ done = [n \in 1..Len(done) |-> n]
            /\ Len(done) <= Len(tasks'[t].items)
            /\ t <= Len(tasks) =>
                 /\ \/ done = tasks[t].applied
                    \/ /\ done = Append(tasks[t].applied, Len(tasks[t].applied) + 1)
                       /\ store' = ModelUpdate(tasks[t].items[Len(done)])
                 /\ (tasks'[t] # tasks[t] /\ store' # store) => done # tasks[t].applied
                 /\ ItemThrew(t) => (done = tasks[t].applied
                                      /\ (tasks'[t] # tasks[t] => store' = store))
            /\ t > Len(tasks) => done = <<>>]_vars

\* C12 witness: a job of two items whose first item was applied and whose
\* second item failed, run to its end.
C12_Witness ==
    \E t \in BulkTasks :
        /\ Len(tasks[t].items) = 2
        /\ tasks[t].applied = <<1>>
        /\ ItemThrew(t)
        /\ tasks[t].pc \in Finished
        /\ store[tasks[t].items[1].id] # NoRow

\* C13: the record of a jobId reads 'completed' only once the job that wrote
\* it has applied every item of its list: none of its updates is pending, none
\* was skipped and none failed.
C13_CompletedMeansAllApplied ==
    \A t \in BulkTasks :
        LET r == tracker[tasks[t].key] IN
        (r.status = "completed" /\ r.writer = t) =>
            /\ tasks[t].iterable
            /\ tasks[t].applied = [n \in 1..Len(tasks[t].items) |-> n]
            /\ tasks[t].i = Len(tasks[t].items) + 1
            /\ tasks[t].err = NoError
            /\ tasks[t].pc = "done"

\* C13 witness: a job of two items recorded as completed.
C13_Witness ==
    \E t \in BulkTasks :
        /\ tracker[tasks[t].key].status = "completed"
        /\ tracker[tasks[t].key].writer = t
        /\ Len(tasks[t].items) = 2
        /\ tasks[t].applied = <<1, 2>>

\* C14: every record of the tracker has status processing, completed or
\* failed; a record of the bulk pattern is never 'processing'; a result is
\* present exactly in the 'completed' records of the single-resource pattern;
\* an error is present exactly in the 'failed' records.
C14_RecordShape ==
    \A k \in Keys :
        LET r == tracker[k] IN
        r # NoRecord =>
            /\ r.status \in {"processing", "completed", "failed"}
            /\ k[1] = "job" => r.status # "processing"
            /\ (r.result # NoRow) <=> (r.status = "completed" /\ k[1] = "op")
            /\ (r.error # NoError) <=> (r.status = "failed")

\* C14 witness: the tracker holds a completed operation with its result next
\* to a failed bulk job with its error.
C14_Witness ==
    /\ \E t \in SingleTasks :
         /\ tracker[tasks[t].key].status = "completed"
         /\ tracker[tasks[t].key].result # NoRow
    /\ \E u \in BulkTasks :
         /\ tracker[tasks[u].key].status = "failed"
         /\ tracker[tasks[u].key].error # NoError

\* The responses sent so far to the request of a task.
Responses(tr) == {n \in 1..Len(tr) : tr[n] \in {"202", "400"}}

\* C15: each request to an async endpoint is answered exactly once; a step of
\* its background task, and an exception raised there by an update or by the
\* tracker, neither sends a response nor changes the one sent; after such an
\* exception the task shows itself to a client in no way but a 'failed' record.
C15_OneResponse ==
    [][\A t \in 1..Len(tasks') :
          LET new == tasks'[t]
              key == new.key IN
          /\ Cardinality(Responses(new.trail)) =
                IF new.pc = "setProcessing" THEN 0 ELSE 1
          /\ t > Len(tasks) =>
                (new.kind = "bulk" => (resp' # resp /\ resp'.status = 202))
          /\ (t <= Len(tasks) /\ new # tasks[t]) =>
                LET old == tasks[t] IN
                /\ IF Responses(old.trail) = {}
                     THEN resp' # resp /\ resp'.status \in {202, 400}
                     ELSE resp' = resp
                /\ (old.err # NoError \/ new.err # NoError) =>
                     \/ tracker' = tracker
                     \/ /\ tracker' = [tracker EXCEPT ![key] = tracker'[key]]
                        /\ tracker'[key].status = "failed"
                        /\ tracker'[key].error = old.err]_vars

\* C15 witness: an operation answered 202 whose update threw afterwards; its
\* record reads 'failed' and the response is still the 202 it was given.
C15_Witness ==
    \E t \in SingleTasks :
        /\ tasks[t].err \in TaskErrors
        /\ tasks[t].pc = "done"
        /\ tracker[tasks[t].key].status = "failed"
        /\ resp.status = 202
        /\ resp.operationId = tasks[t].key

\* The fields a payload writes.
Written(data) == {f \in {"a", "b"} : data[f] # Unset}
\* Two operations on one appointment, the second accepted while the first was
\* still running.
Overlap(t, u) ==
    /\ t # u
    /\ tasks[t].kind = "single" /\ tasks[u].kind = "single"
    /\ tasks[t].id = tasks[u].id
    /\ tasks[t].overlaps \/ tasks[u].overlaps

C17_ResultIsStoredState ==
    [][\A t \in 1..Len(tasks) :
          tasks[t].kind = "single" =>
            /\ (tasks[t].pc = "update" /\ tasks'[t].pc = "setCompleted"
                  /\ store'[tasks[t].id] # NoRow)
                 => tasks'[t].inst = store'[tasks[t].id]
            /\ (tasks[t].pc = "setCompleted" /\ tasks'[t].pc = "done")
                 => /\ tracker'[tasks[t].key].status = "completed"
                    /\ tracker'[tasks[t].key].result = tasks[t].inst]_vars

\* C18: in the single-resource pattern a record that reads 'failed' means the
\* operation's update was not applied to the stored appointment, and a record
\* that reads 'completed' means it was applied, also when a tracker write throws.
C18_StatusTellsWhetherApplied ==
    \A t \in SingleTasks :
        LET r == tracker[tasks[t].key] IN
        /\ (r.status = "failed" /\ r.writer = t) => ~Has(tasks[t].trail, "update")
        /\ (r.status = "completed" /\ r.writer = t) => Has(tasks[t].trail, "update")

====
